---- MODULE Spec2Model ----
(***************************************************************************)
(* A model of track_cli/cli.py: the filename codec, the directory-backed   *)
(* log store (start / end), the period resolver (parse_period) and the     *)
(* aggregator (report).                                                    *)
(*                                                                         *)
(* Text that the code inspects character by character (file names, client  *)
(* names, period phrases) is a sequence of one-character strings.  A file  *)
(* body is a sequence of lines, a line being <<key, value>> for the text   *)
(* "key: value"; a value is a character sequence or, for the text that     *)
(* now_local_iso() prints, the timestamp it denotes.                       *)
(***************************************************************************)
EXTENDS Integers, Sequences, FiniteSets, TLC

VARIABLES
    files,    \* the log directory: file name -> body
    today,    \* the wall clock's calendar day, [year, month, day]
    clock,    \* the wall clock's second of the day
    nstart,   \* history: yyyymmdd -> number of successful start runs on that day
    last,     \* the last operation that ran, its inputs and its outcome
    pc,       \* per process: the position inside start / end (SpecRace)
    loc,      \* per process: the local variables of the running handler
    inp,      \* the arguments of the pure function under check
    out       \* its result

vars == <<files, today, clock, nstart, last, pc, loc, inp, out>>

----------------------------------------------------------------------------
(* Characters and decimal numbers                                           *)

DigitChars == <<"0", "1", "2", "3", "4", "5", "6", "7", "8", "9">>

Digit == {DigitChars[i] : i \in 1..10}

DigitVal(ch) == (CHOOSE i \in 1..10 : DigitChars[i] = ch) - 1

\* str(n) / f"{n}" for n >= 0
RECURSIVE IntToStr(_)
IntToStr(n) ==
    IF n < 10 THEN <<DigitChars[n + 1]>>
    ELSE IntToStr(n \div 10) \o <<DigitChars[(n % 10) + 1]>>

\* int(s) for a non-empty string of decimal digits
RECURSIVE StrToInt(_)
StrToInt(s) ==
    IF Len(s) = 1 THEN DigitVal(s[1])
    ELSE 10 * StrToInt(SubSeq(s, 1, Len(s) - 1)) + DigitVal(s[Len(s)])

\* n printed in w digits, zero padded (strftime %Y, %m, %d)
RECURSIVE ZeroPad(_, _)
ZeroPad(n, w) ==
    IF w = 0 THEN <<>>
    ELSE ZeroPad(n \div 10, w - 1) \o <<DigitChars[(n % 10) + 1]>>

\* s[from..] starts with lit
IsAt(s, from, lit) ==
    /\ from >= 1
    /\ from + Len(lit) - 1 <= Len(s)
    /\ \A i \in 1..Len(lit) : s[from + i - 1] = lit[i]

\* str.replace(old, new) for one-character old and new
ReplaceAll(s, old, new) == [i \in 1..Len(s) |-> IF s[i] = old THEN new ELSE s[i]]

\* a variant of RStrip: one trailing character is stripped
RStrip_once(s, chars) ==
    IF s = <<>> \/ s[Len(s)] \notin chars THEN s
    ELSE SubSeq(s, 1, Len(s) - 1)

\* str.rstrip(chars)
RECURSIVE RStrip(_, _)
RStrip(s, chars) ==
    IF s = <<>> \/ s[Len(s)] \notin chars THEN s
    ELSE RStrip(SubSeq(s, 1, Len(s) - 1), chars)

\* str.lstrip(chars)
RECURSIVE LStrip(_, _)
LStrip(s, chars) ==
    IF s = <<>> \/ s[1] \notin chars THEN s
    ELSE LStrip(Tail(s), chars)

----------------------------------------------------------------------------
(* Filename codec                                                           *)

SEP == <<"-", "-", "-">>
DOTLOG == <<".", "l", "o", "g">>
OPEN == <<"o", "p", "e", "n">>
CLOSED == <<"c", "l", "o", "s", "e", "d">>

NoMatch == [matched |-> FALSE]

\* the last position of the run of digits that starts at position from, or
\* from - 1 when there is none
RECURSIVE DigitRunEnd(_, _)
DigitRunEnd(s, from) ==
    IF from <= Len(s) /\ s[from] \in Digit THEN DigitRunEnd(s, from + 1)
    ELSE from - 1

\* re.compile(r"^(\d{8})-(\d+)---(.+?)---(open|closed)\.log$").match(name): the
\* groups, or NoMatch.  "-" is no digit, so group 2 can only be the whole run
\* of digits after the first "-"; the "$" leaves group 3 one end for each
\* status token, and the lazy .+? tries the shorter group 3 first.
FILENAME_PATTERN(name) ==
    LET n == Len(name)
        headOk == /\ n >= 9
                  /\ \A i \in 1..8 : name[i] \in Digit
                  /\ name[9] = "-"
        \* k: last position of group 2; group 3 starts at k + 4
        k == DigitRunEnd(name, 10)
        \* group 3 = name[k + 4 .. j] followed by "---", st, ".log" and the end
        tailAt(j, st) == /\ j >= k + 4
                         /\ j + 3 + Len(st) + 4 = n
                         /\ IsAt(name, j + 1, SEP \o st \o DOTLOG)
                         /\ \A i \in (k + 4)..j : name[i] # "\n"
        jClosed == n - 7 - Len(CLOSED)
        jOpen == n - 7 - Len(OPEN)
    IN  IF ~headOk \/ k < 10 \/ ~IsAt(name, k + 1, SEP) THEN NoMatch
        ELSE IF tailAt(jClosed, CLOSED) THEN
            [matched |-> TRUE, g1 |-> SubSeq(name, 1, 8), g2 |-> SubSeq(name, 10, k),
             g3 |-> SubSeq(name, k + 4, jClosed), g4 |-> CLOSED]
        ELSE IF tailAt(jOpen, OPEN) THEN
            [matched |-> TRUE, g1 |-> SubSeq(name, 1, 8), g2 |-> SubSeq(name, 10, k),
             g3 |-> SubSeq(name, k + 4, jOpen), g4 |-> OPEN]
        ELSE NoMatch

\* build_filename: the sanitized client
safe_client(client) ==
    LET r1 == ReplaceAll(client, "/", "-")
        r2 == ReplaceAll(r1, "\\", "-")
        r3 == ReplaceAll(r2, "*", "-")
        r4 == ReplaceAll(r3, "?", "-")
        r5 == ReplaceAll(r4, "[", "(")
        r6 == ReplaceAll(r5, "]", ")")
        r7 == ReplaceAll(r6, ":", "-")
        r8 == ReplaceAll(r7, "<", "(")
        r9 == ReplaceAll(r8, ">", ")")
        r10 == ReplaceAll(r9, "|", "-")
        r11 == ReplaceAll(r10, "\"", "'")
    IN  RStrip(r11, {" ", "."})

build_filename(yyyymmdd, seq, client, status) ==
    yyyymmdd \o <<"-">> \o IntToStr(seq) \o SEP \o safe_client(client)
        \o SEP \o status \o DOTLOG

----------------------------------------------------------------------------
(* Path.glob                                                                *)

\* the first position >= from at which lit occurs in s and ends by position
\* upto, or 0
RECURSIVE FindFrom(_, _, _, _)
FindFrom(s, lit, from, upto) ==
    IF from + Len(lit) - 1 > upto THEN 0
    ELSE IF IsAt(s, from, lit) THEN from
    ELSE FindFrom(s, lit, from + 1, upto)

\* the literal pieces mid[i..] occur in this order in s[from..upto]
RECURSIVE MidMatch(_, _, _, _, _)
MidMatch(s, mid, i, from, upto) ==
    IF i > Len(mid) THEN TRUE
    ELSE LET p == FindFrom(s, mid[i], from, upto)
         IN  p # 0 /\ MidMatch(s, mid, i + 1, p + Len(mid[i]), upto)

\* fnmatch of a name against the pattern pieces[1] * pieces[2] * ... * pieces[n]
\* (n >= 2, the pieces contain no wildcard)
GlobMatch(pieces, name) ==
    LET n == Len(pieces)
        first == pieces[1]
        lastp == pieces[n]
    IN  /\ Len(name) >= Len(first) + Len(lastp)
        /\ IsAt(name, 1, first)
        /\ IsAt(name, Len(name) - Len(lastp) + 1, lastp)
        /\ MidMatch(name, SubSeq(pieces, 2, n - 1), 1, Len(first) + 1,
                    Len(name) - Len(lastp))

glob(dir, pieces) == {name \in DOMAIN dir : GlobMatch(pieces, name)}

----------------------------------------------------------------------------
(* datetime.date, datetime.timedelta, datetime.datetime                     *)

Date(y, m, d) == [year |-> y, month |-> m, day |-> d]

IsLeap(y) == y % 4 = 0 /\ (y % 100 # 0 \/ y % 400 = 0)

DaysInMonth(y, m) ==
    IF m = 2 THEN (IF IsLeap(y) THEN 29 ELSE 28)
    ELSE IF m \in {4, 6, 9, 11} THEN 30 ELSE 31

RECURSIVE DaysBeforeMonth(_, _)
DaysBeforeMonth(y, m) ==
    IF m = 1 THEN 0 ELSE DaysBeforeMonth(y, m - 1) + DaysInMonth(y, m - 1)

\* date.toordinal(): 0001-01-01 is day 1
ToOrdinal(d) ==
    LET y == d.year - 1
    IN  y * 365 + y \div 4 - y \div 100 + y \div 400
            + DaysBeforeMonth(d.year, d.month) + d.day

\* date.weekday(): Monday is 0
weekday(d) == (ToOrdinal(d) + 6) % 7

NextDay(d) ==
    IF d.day < DaysInMonth(d.year, d.month) THEN Date(d.year, d.month, d.day + 1)
    ELSE IF d.month < 12 THEN Date(d.year, d.month + 1, 1)
    ELSE Date(d.year + 1, 1, 1)

\* a variant of PrevDay: the day before January 1 stays in the year
PrevDay_same_year(d) ==
    IF d.day > 1 THEN Date(d.year, d.month, d.day - 1)
    ELSE IF d.month > 1 THEN Date(d.year, d.month - 1, DaysInMonth(d.year, d.month - 1))
    ELSE Date(d.year, 12, 31)

PrevDay(d) ==
    IF d.day > 1 THEN Date(d.year, d.month, d.day - 1)
    ELSE IF d.month > 1 THEN Date(d.year, d.month - 1, DaysInMonth(d.year, d.month - 1))
    ELSE Date(d.year - 1, 12, 31)

\* d + timedelta(days=n), n of either sign
RECURSIVE DatePlusDays(_, _)
DatePlusDays(d, n) ==
    IF n = 0 THEN d
    ELSE IF n > 0 THEN DatePlusDays(NextDay(d), n - 1)
    ELSE DatePlusDays(PrevDay(d), n + 1)

\* datetime.combine(d, datetime.min.time()) and (d, datetime.max.time())
DayStart(d) == [date |-> d, sec |-> 0, usec |-> 0]
DayEnd(d) == [date |-> d, sec |-> 86399, usec |-> 999999]

\* a variant of DtLE: a < b
DtLE_exclusive(a, b) ==
    LET oa == ToOrdinal(a.date)
        ob == ToOrdinal(b.date)
    IN  \/ oa < ob
        \/ oa = ob /\ a.sec < b.sec
        \/ oa = ob /\ a.sec = b.sec /\ a.usec < b.usec

\* a <= b on datetimes
DtLE(a, b) ==
    LET oa == ToOrdinal(a.date)
        ob == ToOrdinal(b.date)
    IN  \/ oa < ob
        \/ oa = ob /\ a.sec < b.sec
        \/ oa = ob /\ a.sec = b.sec /\ a.usec <= b.usec

\* (b - a).total_seconds() for datetimes of whole seconds
SecondsBetween(a, b) ==
    (ToOrdinal(b.date) - ToOrdinal(a.date)) * 86400 + (b.sec - a.sec)

\* strftime("%Y%m%d")
yyyymmdd_of(d) == ZeroPad(d.year, 4) \o ZeroPad(d.month, 2) \o ZeroPad(d.day, 2)

\* strptime(s, "%Y%m%d") of eight digits: the date, or none when the fields
\* name no calendar day
NoDate == [year |-> 0, month |-> 0, day |-> 0]
parse_yyyymmdd(s) ==
    LET y == StrToInt(SubSeq(s, 1, 4))
        m == StrToInt(SubSeq(s, 5, 6))
        d == StrToInt(SubSeq(s, 7, 8))
    IN  IF y >= 1 /\ m \in 1..12 /\ d >= 1 /\ d <= DaysInMonth(y, m)
        THEN Date(y, m, d) ELSE NoDate

----------------------------------------------------------------------------
(* Period resolver                                                          *)

UpperChars == <<"A", "B", "C", "D", "E", "F", "G", "H", "I", "J", "K", "L", "M",
                "N", "O", "P", "Q", "R", "S", "T", "U", "V", "W", "X", "Y", "Z">>
LowerChars == <<"a", "b", "c", "d", "e", "f", "g", "h", "i", "j", "k", "l", "m",
                "n", "o", "p", "q", "r", "s", "t", "u", "v", "w", "x", "y", "z">>

Whitespace == {" ", "\t", "\n"}

\* str.strip()
Strip(s) == LStrip(RStrip(s, Whitespace), Whitespace)

\* str.lower()
Lower(s) ==
    [i \in 1..Len(s) |->
        IF \E k \in 1..26 : UpperChars[k] = s[i]
        THEN LowerChars[CHOOSE k \in 1..26 : UpperChars[k] = s[i]]
        ELSE s[i]]

\* a variant of AfterFirstSpace: the unit word is also stripped, as in
\* pd.split()[1]
AfterFirstSpace_stripped(s) ==
    LET p == FindFrom(s, <<" ">>, 1, Len(s))
    IN  Strip(SubSeq(s, p + 1, Len(s)))

\* s.split(" ", 1)[1] for an s that contains a space
AfterFirstSpace(s) ==
    LET p == FindFrom(s, <<" ">>, 1, Len(s))
    IN  SubSeq(s, p + 1, Len(s))

TODAY == <<"t", "o", "d", "a", "y">>
THIS_ == <<"t", "h", "i", "s", " ">>
LAST_ == <<"l", "a", "s", "t", " ">>
WEEK == <<"w", "e", "e", "k">>
MONTH == <<"m", "o", "n", "t", "h">>
QUARTER == <<"q", "u", "a", "r", "t", "e", "r">>
YEAR == <<"y", "e", "a", "r">>

PERIOD_OPTIONS ==
    <<TODAY,
      THIS_ \o WEEK, LAST_ \o WEEK,
      THIS_ \o MONTH, LAST_ \o MONTH,
      THIS_ \o QUARTER, LAST_ \o QUARTER,
      THIS_ \o YEAR, LAST_ \o YEAR>>

week_range(d) ==
    LET start == DatePlusDays(d, 0 - weekday(d))
    IN  <<start, DatePlusDays(start, 6)>>

\* a variant of month_range: the December case wraps the month and keeps the year
month_range_same_year(d) ==
    LET start == Date(d.year, d.month, 1)
        next_month == Date(start.year, (start.month % 12) + 1, 1)
    IN  <<start, DatePlusDays(next_month, -1)>>

month_range(d) ==
    LET start == Date(d.year, d.month, 1)
        next_month == IF start.month = 12 THEN Date(start.year + 1, 1, 1)
                      ELSE Date(start.year, start.month + 1, 1)
    IN  <<start, DatePlusDays(next_month, -1)>>

quarter_range(d) ==
    LET q == (d.month - 1) \div 3
        start_month == q * 3 + 1
        start == Date(d.year, start_month, 1)
        next_q == IF start_month + 3 > 12 THEN Date(d.year + 1, 1, 1)
                  ELSE Date(d.year, start_month + 3, 1)
    IN  <<start, DatePlusDays(next_q, -1)>>

year_range(d) == <<Date(d.year, 1, 1), Date(d.year, 12, 31)>>

ValueError == [ok |-> FALSE, error |-> "ValueError"]

\* the (s, e) days of the phrase pd (already stripped and lowered), or <<>>
\* where the code raises ValueError
period_days(pd, tdy) ==
    IF pd = TODAY THEN <<tdy, tdy>>
    ELSE IF IsAt(pd, 1, THIS_) THEN
        LET unit == AfterFirstSpace(pd)
        IN  IF unit = WEEK THEN week_range(tdy)
            ELSE IF unit = MONTH THEN month_range(tdy)
            ELSE IF unit = QUARTER THEN quarter_range(tdy)
            ELSE IF unit = YEAR THEN year_range(tdy)
            ELSE <<>>
    ELSE IF IsAt(pd, 1, LAST_) THEN
        LET unit == AfterFirstSpace(pd)
        IN  IF unit = WEEK THEN week_range(DatePlusDays(tdy, -7))
            ELSE IF unit = MONTH THEN
                month_range(DatePlusDays(Date(tdy.year, tdy.month, 1), -1))
            ELSE IF unit = QUARTER THEN
                LET month == ((tdy.month - 1) \div 3) * 3 + 1
                    this_q_start == Date(tdy.year, month, 1)
                IN  quarter_range(DatePlusDays(this_q_start, -1))
            ELSE IF unit = YEAR THEN
                <<Date(tdy.year - 1, 1, 1), Date(tdy.year - 1, 12, 31)>>
            ELSE <<>>
    ELSE <<>>

\* parse_period(period_description) on the day tdy = date.today()
parse_period(period_description, tdy) ==
    LET pd == Lower(Strip(period_description))
        se == period_days(pd, tdy)
    IN  IF se = <<>> THEN ValueError
        ELSE [ok |-> TRUE, start_dt |-> DayStart(se[1]), end_dt |-> DayEnd(se[2])]

----------------------------------------------------------------------------
(* Record bodies                                                            *)

None == [kind |-> "none"]
Text(s) == [kind |-> "text", s |-> s]
\* the text "%Y-%m-%d %H:%M:%S" of the second sec of the day d
Stamp(d, sec) == [kind |-> "ts", date |-> d, sec |-> sec]

\* now_local_iso() when the wall clock shows day d, second sec
now_local_iso(d, sec) == Stamp(d, sec)

\* value.strip() of a line's value
StripValue(v) == IF v.kind = "text" THEN Text(Strip(v.s)) ELSE v

\* `not v` for v = meta.get(key)
Falsy(v) == v.kind = "none" \/ (v.kind = "text" /\ v.s = <<>>)

\* datetime.strptime(v, "%Y-%m-%d %H:%M:%S") succeeds
IsStamp(v) == v.kind = "ts"
StampTime(v) == [date |-> v.date, sec |-> v.sec, usec |-> 0]

\* parse_log_file on a body that was read: key -> stripped value, a later
\* line of the same key replacing an earlier one
parse_body(body) ==
    LET keys == {body[i][1] : i \in 1..Len(body)}
        lastOf(k) == CHOOSE i \in 1..Len(body) :
                        /\ body[i][1] = k
                        /\ \A j \in 1..Len(body) : body[j][1] = k => j <= i
    IN  [k \in keys |-> StripValue(body[lastOf(k)][2])]

\* parse_log_file(path): the empty mapping when the file is missing
parse_log_file(dir, name) ==
    IF name \in DOMAIN dir THEN parse_body(dir[name]) ELSE <<>>

\* meta.get(key) and meta.get(key, default)
Get(meta, key) == IF key \in DOMAIN meta THEN meta[key] ELSE None
GetOr(meta, key, default) == IF key \in DOMAIN meta THEN meta[key] ELSE default

\* a variant of duration_hours: the difference is not clamped at zero
duration_hours_signed(start, end) ==
    IF ~IsStamp(start) \/ ~IsStamp(end) THEN 0
    ELSE SecondsBetween(StampTime(start), StampTime(end))

\* duration_hours(start, end), in seconds (3600 of them to the hour)
duration_hours(start, end) ==
    IF ~IsStamp(start) \/ ~IsStamp(end) THEN 0
    ELSE LET secs == SecondsBetween(StampTime(start), StampTime(end))
         IN  IF secs > 0 THEN secs ELSE 0

----------------------------------------------------------------------------
(* Log store                                                                *)

EmptyDir == <<>>

\* a variant of WriteText: exclusive creation, an existing file is kept
WriteText_exclusive(dir, name, body) ==
    IF name \in DOMAIN dir THEN dir ELSE (name :> body) @@ dir

\* path.write_text(body): creates or truncates
WriteText(dir, name, body) == (name :> body) @@ dir

\* a variant of AppendLine: the file is opened with "w" and truncated
AppendLine_truncate(dir, name, line) == (name :> <<line>>) @@ dir

\* open(path, "a").write(line): creates the file when it is missing
AppendLine(dir, name, line) ==
    (name :> (IF name \in DOMAIN dir THEN Append(dir[name], line) ELSE <<line>>))
        @@ dir

\* Path.rename(old -> new) of an existing file on POSIX: replaces new silently
Rename(dir, old, new) ==
    [n \in (DOMAIN dir \ {old}) \cup {new} |-> IF n = new THEN dir[old] ELSE dir[n]]

Max(S) == CHOOSE x \in S : \A y \in S : y <= x

\* a variant of next_sequence_for_today: only the open logs are scanned
next_sequence_for_today_open_only(dir, yyyymmdd) ==
    LET listed == glob(dir, <<yyyymmdd \o <<"-">>, SEP, SEP \o OPEN \o DOTLOG>>)
        seqs == {StrToInt(FILENAME_PATTERN(f).g2) :
                    f \in {g \in listed : LET m == FILENAME_PATTERN(g)
                                          IN  m.matched /\ m.g1 = yyyymmdd}}
    IN  Max(seqs \cup {0}) + 1

\* a variant of next_sequence_for_today: the files of every date are scanned
next_sequence_for_today_any_date(dir, yyyymmdd) ==
    LET listed == glob(dir, <<<<>>, SEP, SEP, DOTLOG>>)
        seqs == {StrToInt(FILENAME_PATTERN(f).g2) :
                    f \in {g \in listed : FILENAME_PATTERN(g).matched}}
    IN  Max(seqs \cup {0}) + 1

next_sequence_for_today(dir, yyyymmdd) ==
    LET listed == glob(dir, <<yyyymmdd \o <<"-">>, SEP, SEP, DOTLOG>>)
        seqs == {StrToInt(FILENAME_PATTERN(f).g2) :
                    f \in {g \in listed : LET m == FILENAME_PATTERN(g)
                                          IN  m.matched /\ m.g1 = yyyymmdd}}
    IN  Max(seqs \cup {0}) + 1

\* a variant of find_open_logs: a file whose body has an End time line is
\* taken to be closed
find_open_logs_unended(dir) ==
    {f \in glob(dir, <<<<>>, SEP \o OPEN \o DOTLOG>>) :
        /\ FILENAME_PATTERN(f).matched
        /\ \A i \in 1..Len(dir[f]) : dir[f][i][1] # "End time"}

\* find_open_logs, as the set of the names it returns
find_open_logs(dir) ==
    {f \in glob(dir, <<<<>>, SEP \o OPEN \o DOTLOG>>) : FILENAME_PATTERN(f).matched}

list_clients(dir) ==
    {FILENAME_PATTERN(f).g3 :
        f \in {g \in glob(dir, <<<<>>, DOTLOG>>) : FILENAME_PATTERN(g).matched}}

list_tasks_for_client(dir, client) ==
    LET mine == {f \in glob(dir, <<<<>>, DOTLOG>>) :
                    LET m == FILENAME_PATTERN(f)
                    IN  m.matched /\ m.g3 = client}
        t(f) == Get(parse_log_file(dir, f), "Task")
    IN  {t(f) : f \in {g \in mine : ~Falsy(t(g))}}

\* start, lines 376-379: the path the new record is written to
start_filename(dir, tdy, c) ==
    LET yyyymmdd == yyyymmdd_of(tdy)
        seq == next_sequence_for_today(dir, yyyymmdd)
    IN  build_filename(yyyymmdd, seq, c, OPEN)

\* start, lines 381-386: the body written
start_lines(t, d, tdy, sec) ==
    <<<<"Task", Text(t)>>,
      <<"Description", Text(d)>>,
      <<"Start time", now_local_iso(tdy, sec)>>>>

\* end, line 421: the line appended
end_line(tdy, sec) == <<"End time", now_local_iso(tdy, sec)>>

\* end, lines 423-429: the closed name of the chosen open file
closed_name(chosen) ==
    LET m == FILENAME_PATTERN(chosen)
    IN  build_filename(m.g1, StrToInt(m.g2), m.g3, CLOSED)

----------------------------------------------------------------------------
(* Aggregator                                                               *)

UNKNOWN == <<"U", "n", "k", "n", "o", "w", "n">>

\* report, lines 485-509: the start timestamp by which a file is tested
\* against the period, or None where the loop skips the file
report_start_ts(dir, f, c) ==
    LET m == FILENAME_PATTERN(f)
        meta == parse_log_file(dir, f)
        start == Get(meta, "Start time")
        end == Get(meta, "End time")
    IN  IF ~m.matched THEN None
        ELSE IF m.g3 # c \/ m.g4 # CLOSED THEN None
        ELSE IF Falsy(start) \/ Falsy(end) THEN None
        ELSE IF IsStamp(start) THEN StampTime(start)
        ELSE IF parse_yyyymmdd(m.g1) = NoDate THEN None
        ELSE DayStart(parse_yyyymmdd(m.g1))

\* the files whose hours the loop of report adds up
report_counted(dir, c, range) ==
    {f \in glob(dir, <<<<>>, DOTLOG>>) :
        LET ts == report_start_ts(dir, f, c)
        IN  /\ ts # None
            /\ DtLE(range.start_dt, ts)
            /\ DtLE(ts, range.end_dt)}

report_task(dir, f) == GetOr(parse_log_file(dir, f), "Task", Text(UNKNOWN))

\* a variant of report_hours: the hours up to now, as status shows them
report_hours_running(dir, f) ==
    LET meta == parse_log_file(dir, f)
    IN  duration_hours(Get(meta, "Start time"), now_local_iso(today, clock))

report_hours(dir, f) ==
    LET meta == parse_log_file(dir, f)
    IN  duration_hours(Get(meta, "Start time"), Get(meta, "End time"))

RECURSIVE SumHours(_, _)
SumHours(dir, fs) ==
    IF fs = {} THEN 0
    ELSE LET f == CHOOSE x \in fs : TRUE
         IN  report_hours(dir, f) + SumHours(dir, fs \ {f})

\* report(c, p) on the day tdy: the outcome and, when the period parses, the
\* task -> hours mapping and the total
report_result(dir, c, p, tdy) ==
    LET range == parse_period(p, tdy)
    IN  IF ~range.ok THEN [ok |-> FALSE, error |-> "InvalidPeriod"]
        ELSE LET counted == report_counted(dir, c, range)
                 tasks == {report_task(dir, f) : f \in counted}
             IN  [ok |-> TRUE,
                  counted |-> counted,
                  task_to_hours |->
                      [t \in tasks |->
                          SumHours(dir, {f \in counted : report_task(dir, f) = t})],
                  total_hours |-> SumHours(dir, counted)]

----------------------------------------------------------------------------
(* Bounds and inputs                                                        *)

\* the number of start runs in a behaviour
MaxStarts == 2
\* the number of one-hour ticks of the wall clock within a day
MaxHours == 1
\* the number of midnights that pass
MaxDays == 1

FirstDay == Date(2024, 1, 31)

Procs == {"p1", "p2"}

\* the (client, task, description) arguments of the start runs; the client
\* names are plain, with a trailing dot (sanitized to the plain one), with an
\* unsafe character, and made of a dot only
StartInputs ==
    {<<<<"A">>, <<"D">>, <<>>>>, <<<<"A">>, <<"R">>, <<>>>>, <<<<"A", ".">>, <<"D">>, <<>>>>,
     <<<<"a", "/">>, <<"R">>, <<>>>>, <<<<".">>, <<"D">>, <<>>>>}

\* period phrases given to report
ReportPhrases == {THIS_ \o MONTH, <<"t", "h", "i", "s", " ", "d", "a", "y">>}
ReportClients == {<<"A">>, <<"a", "/">>}

\* files in the directory that the program did not write
ForeignDir ==
    (<<"n", "o", "t", "e", "s", ".", "t", "x", "t">> :> <<<<"Task", Text(<<"D">>)>>>>)
    @@ ((yyyymmdd_of(FirstDay) \o <<"-", "7", "-", "-", "-", "A", "-", "-", "-", "w", "e", "i", "r", "d", ".", "l", "o", "g">>) :>
            <<<<"Task", Text(<<"D">>)>>,
              <<"Start time", Stamp(FirstDay, 0)>>,
              <<"End time", Stamp(FirstDay, 3600)>>>>)

----------------------------------------------------------------------------
(* The commands, each run from its first line to its last                   *)

Started(yyyymmdd) == IF yyyymmdd \in DOMAIN nstart THEN nstart[yyyymmdd] ELSE 0

RECURSIVE SumOver(_, _)
SumOver(f, S) ==
    IF S = {} THEN 0
    ELSE LET x == CHOOSE y \in S : TRUE IN f[x] + SumOver(f, S \ {x})

TotalStarted == SumOver(nstart, DOMAIN nstart)

CountStart(yyyymmdd) == (yyyymmdd :> (Started(yyyymmdd) + 1)) @@ nstart

Idle == [p \in Procs |-> "idle"]
NoLocals == [p \in Procs |-> <<>>]

Init ==
    /\ files = EmptyDir
    /\ today = FirstDay
    /\ clock = 0
    /\ nstart = <<>>
    /\ last = [op |-> "none"]
    /\ pc = Idle
    /\ loc = NoLocals
    /\ inp = <<>>
    /\ out = <<>>

InitForeign ==
    /\ files = ForeignDir
    /\ today = FirstDay
    /\ clock = 0
    /\ nstart = <<>>
    /\ last = [op |-> "none"]
    /\ pc = Idle
    /\ loc = NoLocals
    /\ inp = <<>>
    /\ out = <<>>

\* start -c c -t t -d d
start(c, t, d) ==
    LET filename == start_filename(files, today, c)
    IN  /\ TotalStarted < MaxStarts
        /\ files' = WriteText(files, filename, start_lines(t, d, today, clock))
        /\ nstart' = CountStart(yyyymmdd_of(today))
        /\ last' = [op |-> "start", c |-> c, t |-> t, d |-> d,
                    filename |-> filename, result |-> "Started"]
        /\ UNCHANGED <<today, clock, pc, loc, inp, out>>

\* end, with no open log: lines 399-402
end_none ==
    /\ find_open_logs(files) = {}
    /\ last' = [op |-> "end", result |-> "NoOpenLogs"]
    /\ UNCHANGED <<files, today, clock, nstart, pc, loc, inp, out>>

\* end, the selection prompt cancelled: lines 414-416
end_cancelled ==
    /\ Cardinality(find_open_logs(files)) > 1
    /\ last' = [op |-> "end", result |-> "Cancelled"]
    /\ UNCHANGED <<files, today, clock, nstart, pc, loc, inp, out>>

\* end, closing the only open log or the one selected: lines 404-430
end(chosen) ==
    LET new_name == closed_name(chosen)
    IN  /\ chosen \in find_open_logs(files)
        /\ files' = Rename(AppendLine(files, chosen, end_line(today, clock)),
                           chosen, new_name)
        /\ last' = [op |-> "end", chosen |-> chosen, new_name |-> new_name,
                    result |-> "Closed"]
        /\ UNCHANGED <<today, clock, nstart, pc, loc, inp, out>>

\* report -c c -p p
report(c, p) ==
    /\ last' = [op |-> "report", c |-> c, p |-> p,
                result |-> report_result(files, c, p, today)]
    /\ UNCHANGED <<files, today, clock, nstart, pc, loc, inp, out>>

\* the rows of the table that status prints
status_rows(dir, tdy, sec) ==
    {LET meta == parse_log_file(dir, f)
         st == Get(meta, "Start time")
     IN  [file |-> f,
          client |-> FILENAME_PATTERN(f).g3,
          task |-> GetOr(meta, "Task", Text(<<"?">>)),
          start |-> st,
          hours |-> IF Falsy(st) THEN 0
                    ELSE duration_hours(st, now_local_iso(tdy, sec))]
     : f \in find_open_logs(dir)}

status ==
    /\ last' = IF find_open_logs(files) = {}
               THEN [op |-> "status", result |-> "NoOpenLogs"]
               ELSE [op |-> "status", result |-> "Listed",
                     rows |-> status_rows(files, today, clock)]
    /\ UNCHANGED <<files, today, clock, nstart, pc, loc, inp, out>>

\* the wall clock
Tick ==
    /\ clock < MaxHours * 3600
    /\ clock' = clock + 3600
    /\ UNCHANGED <<files, today, nstart, last, pc, loc, inp, out>>

Midnight ==
    /\ ToOrdinal(today) - ToOrdinal(FirstDay) < MaxDays
    /\ today' = NextDay(today)
    /\ clock' = 0
    /\ UNCHANGED <<files, nstart, last, pc, loc, inp, out>>

Next ==
    \/ \E a \in StartInputs : start(a[1], a[2], a[3])
    \/ end_none
    \/ end_cancelled
    \/ \E chosen \in DOMAIN files : end(chosen)
    \/ \E c \in ReportClients, p \in ReportPhrases : report(c, p)
    \/ status
    \/ Tick
    \/ Midnight

\* the commands run one at a time, from an empty log directory
Spec == Init /\ [][Next]_vars

\* the same, from a directory that holds files of other origin
SpecForeign == InitForeign /\ [][Next]_vars

----------------------------------------------------------------------------
(* Two instances of the program on one log directory, step by step          *)

\* the (client, task, description) arguments of the racing start runs
RaceInputs ==
    {a \in StartInputs : a[2] = <<"D">>} \cup {a \in StartInputs : a[1] = <<"a", "/">>}

Starting == {p \in Procs : pc[p] = "start_write"}

\* start, lines 376-379: today's date, the next sequence and the path
start_scan(p, c, t, d) ==
    /\ pc[p] = "idle"
    /\ TotalStarted + Cardinality(Starting) < MaxStarts
    /\ pc' = [pc EXCEPT ![p] = "start_write"]
    /\ loc' = [loc EXCEPT ![p] =
                  [c |-> c, t |-> t, d |-> d,
                   yyyymmdd |-> yyyymmdd_of(today),
                   seq |-> next_sequence_for_today(files, yyyymmdd_of(today)),
                   filename |-> start_filename(files, today, c)]]
    /\ UNCHANGED <<files, today, clock, nstart, last, inp, out>>

\* start, lines 381-386: the body is written to the path
start_write(p) ==
    /\ pc[p] = "start_write"
    /\ files' = WriteText(files, loc[p].filename,
                          start_lines(loc[p].t, loc[p].d, today, clock))
    /\ nstart' = CountStart(loc[p].yyyymmdd)
    /\ last' = [op |-> "start", p |-> p, c |-> loc[p].c, t |-> loc[p].t,
                d |-> loc[p].d, filename |-> loc[p].filename,
                overwrote |-> loc[p].filename \in DOMAIN files,
                result |-> "Started"]
    /\ pc' = [pc EXCEPT ![p] = "idle"]
    /\ loc' = [loc EXCEPT ![p] = <<>>]
    /\ UNCHANGED <<today, clock, inp, out>>

\* end, lines 399-417: the open logs are listed and one is chosen
end_list(p, chosen) ==
    /\ pc[p] = "idle"
    /\ chosen \in find_open_logs(files)
    /\ pc' = [pc EXCEPT ![p] = "end_append"]
    /\ loc' = [loc EXCEPT ![p] = [chosen |-> chosen]]
    /\ UNCHANGED <<files, today, clock, nstart, last, inp, out>>

\* end, lines 420-421: the End time line is appended
end_append(p) ==
    /\ pc[p] = "end_append"
    /\ files' = AppendLine(files, loc[p].chosen, end_line(today, clock))
    /\ last' = [op |-> "end_append", p |-> p, chosen |-> loc[p].chosen,
                created |-> loc[p].chosen \notin DOMAIN files,
                result |-> "Appended"]
    /\ pc' = [pc EXCEPT ![p] = "end_rename"]
    /\ UNCHANGED <<today, clock, nstart, loc, inp, out>>

\* end, lines 423-430: the file is renamed to its closed name; Path.rename
\* raises FileNotFoundError when the file is gone
end_rename(p) ==
    LET chosen == loc[p].chosen
        new_name == closed_name(chosen)
    IN  /\ pc[p] = "end_rename"
        /\ IF chosen \in DOMAIN files
           THEN /\ files' = Rename(files, chosen, new_name)
                /\ last' = [op |-> "end", p |-> p, chosen |-> chosen,
                            new_name |-> new_name,
                            replaced |-> new_name \in DOMAIN files,
                            result |-> "Closed"]
           ELSE /\ files' = files
                /\ last' = [op |-> "end", p |-> p, chosen |-> chosen,
                            result |-> "NotFound"]
        /\ pc' = [pc EXCEPT ![p] = "idle"]
        /\ loc' = [loc EXCEPT ![p] = <<>>]
        /\ UNCHANGED <<today, clock, nstart, inp, out>>

NextRace ==
    \/ \E p \in Procs, a \in RaceInputs : start_scan(p, a[1], a[2], a[3])
    \/ \E p \in Procs : start_write(p)
    \/ \E p \in Procs, chosen \in DOMAIN files : end_list(p, chosen)
    \/ \E p \in Procs : end_append(p)
    \/ \E p \in Procs : end_rename(p)
    \/ Tick

SpecRace == Init /\ [][NextRace]_vars

----------------------------------------------------------------------------
(* The filename codec on its own: build_filename, then FILENAME_PATTERN     *)

\* the largest sequence number encoded
MaxSeq == 11

CodecClients ==
    {<<"A">>, <<"A", ".">>, <<"a", "/">>, <<".">>, <<" ">>, <<"x", "-", "-", "-", "y">>, <<"-", "x", "-">>, <<"b", "\\", "[", "c", "]", ":">>, <<"<", "|", ">", "\"", "*", "?">>, <<"a", "-", "-", "-", "o", "p", "e", "n", ".", "l", "o", "g">>}

CodecDates == {yyyymmdd_of(FirstDay), yyyymmdd_of(Date(1999, 12, 31))}

CodecInputs ==
    [date : CodecDates, seq : 1..MaxSeq, client : CodecClients, status : {OPEN, CLOSED}]

InitCodec ==
    /\ files = EmptyDir
    /\ today = FirstDay
    /\ clock = 0
    /\ nstart = <<>>
    /\ last = [op |-> "none"]
    /\ pc = Idle
    /\ loc = NoLocals
    /\ inp \in CodecInputs
    /\ out = [step |-> "input"]

encode ==
    /\ out.step = "input"
    /\ out' = [step |-> "encoded",
               filename |-> build_filename(inp.date, inp.seq, inp.client, inp.status)]
    /\ UNCHANGED <<files, today, clock, nstart, last, pc, loc, inp>>

decode ==
    /\ out.step = "encoded"
    /\ out' = [step |-> "decoded", filename |-> out.filename,
               m |-> FILENAME_PATTERN(out.filename)]
    /\ UNCHANGED <<files, today, clock, nstart, last, pc, loc, inp>>

NextCodec == encode \/ decode

SpecCodec == InitCodec /\ [][NextCodec]_vars

----------------------------------------------------------------------------
(* The period resolver on its own, and report as its caller                 *)

RefYears == {2023, 2024, 2100}

RefDays ==
    {d \in [year : RefYears, month : 1..12, day : 1..31] :
        d.day <= DaysInMonth(d.year, d.month)}

Phrases ==
    {PERIOD_OPTIONS[i] : i \in 1..Len(PERIOD_OPTIONS)}
    \cup {<<" ", " ", "T", "h", "i", "s", " ", "M", "o", "n", "t", "h", " ">>, <<"L", "A", "S", "T", " ", "Q", "U", "A", "R", "T", "E", "R", "\t">>, <<"t", "h", "i", "s", " ", " ", "w", "e", "e", "k">>, <<"t", "h", "i", "s", " ", "d", "a", "y">>, <<"n", "e", "x", "t", " ", "w", "e", "e", "k">>,
          <<>>, <<"t", "h", "i", "s">>, <<" ", " ", " ">>, <<"l", "a", "s", "t", " ", "w", "e", "e", "k", " ", "a", "g", "o">>, <<"t", "o", " ", "d", "a", "y">>}

\* one closed record of client A, started and ended on FirstDay
PeriodDir ==
    build_filename(yyyymmdd_of(FirstDay), 1, <<"A">>, CLOSED) :>
        Append(start_lines(<<"D">>, <<>>, FirstDay, 0), end_line(FirstDay, 3600))

InitPeriod ==
    /\ files = PeriodDir
    /\ today \in RefDays
    /\ clock = 0
    /\ nstart = <<>>
    /\ last = [op |-> "none"]
    /\ pc = Idle
    /\ loc = NoLocals
    /\ inp \in Phrases
    /\ out = [step |-> "input"]

resolve ==
    /\ out.step = "input"
    /\ out' = [step |-> "resolved", result |-> parse_period(inp, today)]
    /\ UNCHANGED <<files, today, clock, nstart, last, pc, loc, inp>>

\* report -c A -p inp; an empty -p is replaced by the selection prompt's
\* answer (lines 464-474), so only a non-empty phrase reaches parse_period
report_phrase ==
    /\ inp # <<>>
    /\ last.op = "none"
    /\ report(<<"A">>, inp)

NextPeriod == resolve \/ report_phrase

SpecPeriod == InitPeriod /\ [][NextPeriod]_vars

----------------------------------------------------------------------------
(* Claims about the filename codec                                          *)

\* C7: the filename round trip. Matching FILENAME_PATTERN against
\* build_filename(date, sequence, client, status) succeeds and yields the
\* date, the sequence, the sanitized client and the status.
C7_RoundTrip ==
    out.step = "decoded" =>
        /\ out.m.matched
        /\ out.m.g1 = inp.date
        /\ StrToInt(out.m.g2) = inp.seq
        /\ out.m.g3 = safe_client(inp.client)
        /\ out.m.g4 = inp.status

----------------------------------------------------------------------------
(* Claims about the period resolver                                         *)

Normalized(phrase) == Lower(Strip(phrase))

\* the lengths of the months of year y, by the calendar
MonthDays(y) ==
    <<31, IF y % 4 = 0 /\ (y % 100 # 0 \/ y % 400 = 0) THEN 29 ELSE 28, 31, 30, 31, 30,
      31, 31, 30, 31, 30, 31>>

FirstInstant(y, m, d) == [date |-> Date(y, m, d), sec |-> 0, usec |-> 0]
LastInstant(y, m, d) == [date |-> Date(y, m, d), sec |-> 86399, usec |-> 999999]

\* the first month of the quarter of month m
QuarterStart(m) == CHOOSE a \in {1, 4, 7, 10} : a <= m /\ m <= a + 2

\* C9: 'this month', 'this quarter' and 'this year' resolve to the range from
\* 00:00:00 of the first day to the last instant of the last day of the calendar
\* month, the Jan/Apr/Jul/Oct-anchored quarter and the calendar year of the
\* reference day; 'this month' on 2024-02-15 is [2024-02-01, 2024-02-29].
C9_ThisRanges ==
    out.step = "resolved" =>
        LET y == today.year
            m == today.month
            qs == QuarterStart(m)
            r == out.result
        IN  /\ Normalized(inp) = THIS_ \o MONTH =>
                  r = [ok |-> TRUE, start_dt |-> FirstInstant(y, m, 1),
                       end_dt |-> LastInstant(y, m, MonthDays(y)[m])]
            /\ Normalized(inp) = THIS_ \o QUARTER =>
                  r = [ok |-> TRUE, start_dt |-> FirstInstant(y, qs, 1),
                       end_dt |-> LastInstant(y, qs + 2, MonthDays(y)[qs + 2])]
            /\ Normalized(inp) = THIS_ \o YEAR =>
                  r = [ok |-> TRUE, start_dt |-> FirstInstant(y, 1, 1),
                       end_dt |-> LastInstant(y, 12, 31)]
            /\ (today = Date(2024, 2, 15) /\ inp = THIS_ \o MONTH) =>
                  /\ r.start_dt = FirstInstant(2024, 2, 1)
                  /\ r.end_dt = LastInstant(2024, 2, 29)

C9_Witness ==
    /\ out.step = "resolved"
    /\ today = Date(2024, 2, 15)
    /\ inp = THIS_ \o MONTH
    /\ out.result.ok
    /\ out.result.end_dt.date = Date(2024, 2, 29)

NinePhrases == {PERIOD_OPTIONS[i] : i \in 1..Len(PERIOD_OPTIONS)}

\* C10: parse_period accepts exactly the nine phrases, compared after trimming
\* surrounding whitespace and ignoring case; every other phrase fails and
\* returns no range, and report then aggregates nothing.
C10_NinePhrases ==
    /\ out.step = "resolved" =>
          /\ out.result.ok <=> Normalized(inp) \in NinePhrases
          /\ ~out.result.ok => DOMAIN out.result = {"ok", "error"}
    /\ last.op = "report" =>
          /\ last.result.ok <=> Normalized(last.p) \in NinePhrases
          /\ ~last.result.ok => DOMAIN last.result = {"ok", "error"}
          /\ last.result.ok => "task_to_hours" \in DOMAIN last.result

C10_Witness ==
    /\ inp = <<"t", "h", "i", "s", " ", " ", "w", "e", "e", "k">>
    /\ out.step = "resolved"
    /\ ~out.result.ok
    /\ last.op = "report"
    /\ ~last.result.ok

----------------------------------------------------------------------------
(* Claims about the log store, the commands run one at a time               *)

\* the record files of a directory, and what their names decode to
Records(dir) == {f \in DOMAIN dir : FILENAME_PATTERN(f).matched}
DateOf(f) == FILENAME_PATTERN(f).g1
SeqOf(f) == StrToInt(FILENAME_PATTERN(f).g2)
ClientOf(f) == FILENAME_PATTERN(f).g3
StatusOf(f) == FILENAME_PATTERN(f).g4
IdOf(f) == <<DateOf(f), SeqOf(f), ClientOf(f)>>

Ids(dir) == {IdOf(f) : f \in Records(dir)}
OpenIds(dir) == {IdOf(f) : f \in {g \in Records(dir) : StatusOf(g) = OPEN}}
ClosedIds(dir) == {IdOf(f) : f \in {g \in Records(dir) : StatusOf(g) = CLOSED}}

SeqsOn(dir, yyyymmdd) == {SeqOf(f) : f \in {g \in Records(dir) : DateOf(g) = yyyymmdd}}

KeysOf(body) == [i \in 1..Len(body) |-> body[i][1]]
EndTimeLines(body) == {i \in 1..Len(body) : body[i][1] = "End time"}

\* C1: from an empty directory, after N successful start runs on day D the
\* sequence numbers of the record files of D are exactly 1..N.
C1_SequencesOneToN ==
    \A D \in DOMAIN nstart : SeqsOn(files, D) = 1..nstart[D]

\* C3: once a record is closed it stays closed, no file of its identity is
\* open in any later state, and every record that exists keeps existing.
C3_OneWay ==
    [][/\ ClosedIds(files) \subseteq ClosedIds(files')
       /\ ClosedIds(files') \cap OpenIds(files') = {}
       /\ Ids(files) \subseteq Ids(files')]_vars

\* a record was closed on a day and a later start ran on the same day
C3_Witness ==
    /\ last.op = "start"
    /\ \E f \in Records(files), g \in Records(files) :
          /\ StatusOf(f) = CLOSED
          /\ g = last.filename
          /\ DateOf(g) = DateOf(f)
          /\ ClientOf(g) = ClientOf(f)
          /\ SeqOf(g) > SeqOf(f)

\* C5: a successful end on an open record file replaces it by one file that
\* decodes to the same date, sequence and client with status closed, whose
\* body is the previous body followed by exactly one End time line, and
\* leaves every other file's name and body unchanged.
C5_EndFrame ==
    [][\A chosen \in find_open_logs(files) :
          end(chosen) =>
              \E new \in DOMAIN files' :
                  /\ new \notin DOMAIN files
                  /\ DOMAIN files' = (DOMAIN files \ {chosen}) \cup {new}
                  /\ FILENAME_PATTERN(new).matched
                  /\ IdOf(new) = IdOf(chosen)
                  /\ StatusOf(new) = CLOSED
                  /\ Len(files'[new]) = Len(files[chosen]) + 1
                  /\ SubSeq(files'[new], 1, Len(files[chosen])) = files[chosen]
                  /\ EndTimeLines(files'[new]) = {Len(files'[new])}
                  /\ \A f \in DOMAIN files \ {chosen} : files'[f] = files[f]]_vars

\* an end closed one record while another file was in the directory
C5_Witness ==
    /\ last.op = "end"
    /\ last.result = "Closed"
    /\ last.new_name \in DOMAIN files
    /\ KeysOf(files[last.new_name]) = <<"Task", "Description", "Start time", "End time">>
    /\ Cardinality(DOMAIN files) >= 2

\* C6: a successful start adds exactly one new file, named
\* <today>-<next sequence>---<sanitized client>---open.log, with the body lines
\* Task, Description, Start time in this order, and leaves every file that
\* existed before unchanged.
C6_StartFrame ==
    [][\A a \in StartInputs :
          start(a[1], a[2], a[3]) =>
              LET ymd == yyyymmdd_of(today)
                  name == ymd \o <<"-">>
                            \o IntToStr(next_sequence_for_today(files, ymd)) \o SEP
                            \o safe_client(a[1]) \o SEP \o OPEN \o DOTLOG
              IN  /\ name \notin DOMAIN files
                  /\ DOMAIN files' = DOMAIN files \cup {name}
                  /\ KeysOf(files'[name]) = <<"Task", "Description", "Start time">>
                  /\ \A f \in DOMAIN files : files'[f] = files[f]]_vars

\* the directory without the files whose names do not match the pattern
OnlyRecords(dir) == [f \in Records(dir) |-> dir[f]]

\* C8: a file whose name does not match the pattern is in no listing, in no
\* report, does not change next_sequence_for_today, and is never modified,
\* renamed or removed by start or end.
C8_ForeignTolerance ==
    [][/\ find_open_logs(files) = find_open_logs(OnlyRecords(files))
       /\ list_clients(files) = list_clients(OnlyRecords(files))
       /\ \A c \in ReportClients :
             /\ list_tasks_for_client(files, c)
                    = list_tasks_for_client(OnlyRecords(files), c)
             /\ \A p \in ReportPhrases :
                    report_result(files, c, p, today)
                        = report_result(OnlyRecords(files), c, p, today)
       /\ next_sequence_for_today(files, yyyymmdd_of(today))
              = next_sequence_for_today(OnlyRecords(files), yyyymmdd_of(today))
       /\ \A f \in DOMAIN files \ Records(files) :
             f \in DOMAIN files' /\ files'[f] = files[f]]_vars

----------------------------------------------------------------------------
(* Claims about two instances on one directory                              *)

\* a record file of the directory carries the date and sequence that the
\* pending start of q computed
SeqTaken(q) ==
    \E f \in Records(files) : DateOf(f) = loc[q].yyyymmdd /\ SeqOf(f) = loc[q].seq

\* two record files of one (date, sequence)
Duplicate(dir) ==
    \E f \in Records(dir), g \in Records(dir) :
        f # g /\ DateOf(f) = DateOf(g) /\ SeqOf(f) = SeqOf(g)

\* C2: two start runs that both computed their sequence before either wrote
\* hold the same number; the second write then replaces the file of the first
\* (same sanitized client, still open) or leaves two record files of one
\* (date, sequence).  Stated for a second writer whose file is a record file.
C2_RaceOutcome ==
    [][\A q \in Procs :
          (start_write(q) /\ SeqTaken(q) /\ safe_client(loc[q].c) # <<>>) =>
              LET fn == loc[q].filename
              IN  /\ fn \in DOMAIN files <=>
                        \E f \in Records(files) :
                            /\ IdOf(f) = <<loc[q].yyyymmdd, loc[q].seq, safe_client(loc[q].c)>>
                            /\ StatusOf(f) = OPEN
                  /\ fn \in DOMAIN files =>
                        /\ DOMAIN files' = DOMAIN files
                        /\ files'[fn] = start_lines(loc[q].t, loc[q].d, today, clock)
                  /\ fn \notin DOMAIN files => Duplicate(files')]_vars

\* two open record files of one (date, sequence) and two clients
C2_Witness ==
    \E f \in Records(files), g \in Records(files) :
        /\ DateOf(f) = DateOf(g)
        /\ SeqOf(f) = SeqOf(g)
        /\ ClientOf(f) # ClientOf(g)
        /\ StatusOf(f) = OPEN
        /\ StatusOf(g) = OPEN

\* C4: an end whose chosen open file no longer exists fails with NotFound and
\* leaves the directory unchanged.
C4_CloseMissingFails ==
    [][\A p \in Procs :
          (/\ pc[p] \in {"end_append", "end_rename"}
           /\ loc[p].chosen \notin DOMAIN files
           /\ pc'[p] # pc[p]) =>
              /\ files' = files
              /\ last'.op = "end"
              /\ last'.result = "NotFound"]_vars

----------------------------------------------------------------------------
(* report on its own, over directories of records from earlier runs         *)

\* the number of records picked from the pool into a small directory
MaxPicked == 2

Jan31 == Date(2024, 1, 31)
Feb1 == Date(2024, 2, 1)
Feb10 == Date(2024, 2, 10)
Feb29 == Date(2024, 2, 29)
Mar1 == Date(2024, 3, 1)

\* a file as start wrote it and end closed it: started on day sd at second
\* ss, ended on day ed at second es
ClosedBody(t, sd, ss, ed, es) ==
    Append(start_lines(t, <<>>, sd, ss), end_line(ed, es))

StoredFile(d, seq, client, st, body) ==
    [name |-> build_filename(yyyymmdd_of(d), seq, client, st), body |-> body]

\* the records of earlier runs: on the first and the last second of February
\* 2024, around its two ends, of another client, still open after an
\* interrupted end, and with bodies edited by hand (Start time after End time,
\* no Task line, a Start time that is no timestamp, an empty Start time, no
\* End time line); and a .log file whose name is no record name
RecordPool ==
    {StoredFile(Feb1, 1, <<"A">>, CLOSED, ClosedBody(<<"D">>, Feb1, 0, Feb1, 3600)),
     StoredFile(Feb29, 1, <<"A">>, CLOSED, ClosedBody(<<"D">>, Feb29, 86399, Mar1, 1800)),
     StoredFile(Jan31, 1, <<"A">>, CLOSED, ClosedBody(<<"R">>, Jan31, 86399, Feb1, 7200)),
     StoredFile(Mar1, 1, <<"A">>, CLOSED, ClosedBody(<<"R">>, Mar1, 0, Mar1, 3600)),
     StoredFile(Feb10, 1, <<"A">>, OPEN, ClosedBody(<<"D">>, Feb10, 0, Feb10, 3600)),
     StoredFile(Feb10, 2, <<"a", "-">>, CLOSED, ClosedBody(<<"D">>, Feb10, 0, Feb10, 3600)),
     StoredFile(Feb10, 3, <<"A">>, CLOSED, ClosedBody(<<"R">>, Feb10, 7200, Feb10, 3600)),
     StoredFile(Feb10, 4, <<"A">>, CLOSED,
                Tail(ClosedBody(<<"D">>, Feb10, 0, Feb10, 3600))),
     StoredFile(Feb29, 2, <<"A">>, CLOSED,
                <<<<"Task", Text(<<"D">>)>>,
                  <<"Start time", Text(<<"s", "o", "o", "n">>)>>,
                  end_line(Feb29, 3600)>>),
     StoredFile(Feb10, 5, <<"A">>, CLOSED,
                <<<<"Task", Text(<<"D">>)>>,
                  <<"Start time", Text(<<" ">>)>>,
                  end_line(Feb10, 3600)>>),
     StoredFile(Feb10, 6, <<"A">>, CLOSED, start_lines(<<"D">>, <<>>, Feb10, 0)),
     [name |-> yyyymmdd_of(Feb10) \o <<"-", "x">> \o SEP \o <<"A">> \o SEP
                   \o CLOSED \o DOTLOG,
      body |-> ClosedBody(<<"D">>, Feb10, 0, Feb10, 3600)]}

DirOf(S) ==
    [n \in {r.name : r \in S} |-> (CHOOSE r \in S : r.name = n).body]

ReportDirs ==
    {DirOf(S) : S \in {T \in SUBSET RecordPool : Cardinality(T) <= MaxPicked}}
    \cup {DirOf(RecordPool)}

ReportDays == {Feb29, Mar1}

ReportAsked ==
    [c : {<<"A">>, <<"a", "-">>},
     p : {TODAY, THIS_ \o MONTH, LAST_ \o MONTH, <<"t", "h", "i", "s", " ", "d", "a", "y">>}]

InitReport ==
    /\ files \in ReportDirs
    /\ today \in ReportDays
    /\ clock = 0
    /\ nstart = <<>>
    /\ last = [op |-> "none"]
    /\ pc = Idle
    /\ loc = NoLocals
    /\ inp \in ReportAsked
    /\ out = <<>>

\* report -c inp.c -p inp.p
report_first ==
    /\ last.op = "none"
    /\ report(inp.c, inp.p)

\* the same command once more, its outcome kept beside the first
report_again ==
    /\ last.op = "report"
    /\ out = <<>>
    /\ out' = [op |-> "report", c |-> inp.c, p |-> inp.p,
               result |-> report_result(files, inp.c, inp.p, today)]
    /\ UNCHANGED <<files, today, clock, nstart, last, pc, loc, inp>>

status_after ==
    /\ out # <<>>
    /\ last.op = "report"
    /\ status

NextReport == report_first \/ report_again \/ status_after \/ Tick

SpecReport == InitReport /\ [][NextReport]_vars

----------------------------------------------------------------------------
(* Claims about report                                                      *)

ReportDone == last.op = "report" /\ last.result.ok

StartValue(dir, f) == Get(parse_log_file(dir, f), "Start time")
EndValue(dir, f) == Get(parse_log_file(dir, f), "End time")

\* the start timestamp of a record file: the Start time of its body or, where
\* that value is no timestamp, midnight of the date in the file name
StartTimestamp(dir, f) ==
    LET sv == StartValue(dir, f)
    IN  IF IsStamp(sv) THEN StampTime(sv)
        ELSE IF Falsy(sv) THEN None
        ELSE DayStart(parse_yyyymmdd(DateOf(f)))

\* ts lies on a day of the range, first and last day included
WithinDays(ts, range) ==
    /\ ToOrdinal(range.start_dt.date) <= ToOrdinal(ts.date)
    /\ ToOrdinal(ts.date) <= ToOrdinal(range.end_dt.date)

Eligible(dir, f, c, range) ==
    /\ FILENAME_PATTERN(f).matched
    /\ StatusOf(f) = CLOSED
    /\ ClientOf(f) = c
    /\ StartTimestamp(dir, f) # None
    /\ WithinDays(StartTimestamp(dir, f), range)

C12_SanitizedMatching ==
    [][\A c \in ReportClients, p \in ReportPhrases :
          (report(c, p) /\ last'.result.ok) =>
              \A f \in Records(files) :
                  (/\ StatusOf(f) = CLOSED
                   /\ ClientOf(f) = safe_client(c)
                   /\ ~Falsy(EndValue(files, f))
                   /\ StartTimestamp(files, f) # None
                   /\ WithinDays(StartTimestamp(files, f), parse_period(p, today)))
                      => f \in last'.result.counted]_vars

\* what a counted record adds: the seconds from its Start time to its End
\* time, and nothing where that is negative or either is no timestamp
Contribution(dir, f) ==
    LET sv == StartValue(dir, f)
        ev == EndValue(dir, f)
        elapsed == (ToOrdinal(ev.date) - ToOrdinal(sv.date)) * 86400 + ev.sec - sv.sec
    IN  IF IsStamp(sv) /\ IsStamp(ev) /\ elapsed > 0 THEN elapsed ELSE 0

\* the task a record is accumulated under
TaskOf(dir, f) ==
    IF \E i \in 1..Len(dir[f]) : dir[f][i][1] = "Task"
    THEN Get(parse_log_file(dir, f), "Task")
    ELSE Text(UNKNOWN)

\* C13: the report never shows negative time. Every counted record adds
\* max(0, end - start), every per-task total is >= 0 and is the sum over the
\* counted records of that task (those without a Task line under 'Unknown'),
\* and the grand total is the sum of the per-task totals.
C13_NoNegativeTime ==
    ReportDone =>
        LET res == last.result
            added == [f \in res.counted |-> Contribution(files, f)]
        IN  /\ DOMAIN res.task_to_hours = {TaskOf(files, f) : f \in res.counted}
            /\ \A t \in DOMAIN res.task_to_hours :
                  /\ res.task_to_hours[t] >= 0
                  /\ res.task_to_hours[t] =
                        SumOver(added, {f \in res.counted : TaskOf(files, f) = t})
            /\ res.total_hours >= 0
            /\ res.total_hours = SumOver(res.task_to_hours, DOMAIN res.task_to_hours)

\* a report over three tasks that counted a record whose Start time is after
\* its End time and a record without a Task line
C13_Witness ==
    /\ ReportDone
    /\ Cardinality(DOMAIN last.result.task_to_hours) >= 3
    /\ \E f \in last.result.counted, g \in last.result.counted :
          /\ IsStamp(StartValue(files, f)) /\ IsStamp(EndValue(files, f))
          /\ SecondsBetween(StampTime(StartValue(files, f)),
                            StampTime(EndValue(files, f))) < 0
          /\ last.result.task_to_hours[TaskOf(files, f)] = 0
          /\ TaskOf(files, g) = Text(UNKNOWN)
          /\ last.result.task_to_hours[Text(UNKNOWN)] > 0

RunDates == {yyyymmdd_of(DatePlusDays(FirstDay, n)) : n \in 0..MaxDays}

\* C15: next_sequence_for_today(date) is 1 + the largest decoded sequence
\* among the record files of that date, of every client and of both statuses,
\* and 1 when there is none; files of other dates and files that are no
\* record files do not count.
C15_GlobalPerDate ==
    \A D \in RunDates :
        next_sequence_for_today(files, D) =
            IF SeqsOn(files, D) = {} THEN 1 ELSE 1 + Max(SeqsOn(files, D))

\* a closed record and an open record of two clients on one date, numbered
\* 1 and 2, so that the next number of the date is 3
C15_Witness ==
    \E f \in Records(files), g \in Records(files) :
        /\ DateOf(f) = DateOf(g)
        /\ ClientOf(f) # ClientOf(g)
        /\ StatusOf(f) = CLOSED /\ StatusOf(g) = OPEN
        /\ SeqOf(f) = 1 /\ SeqOf(g) = 2
        /\ next_sequence_for_today(files, DateOf(f)) = 3

\* the range from the first day of month m1 to the last day of month m2 of
\* year y, by the calendar
CalendarMonths(y, m1, m2) ==
    [ok |-> TRUE, start_dt |-> FirstInstant(y, m1, 1),
     end_dt |-> LastInstant(y, m2, MonthDays(y)[m2])]

\* C16: 'last X' resolves to the X-block just before the block of 'this X':
\* it is the range of 'this X' taken on the day before the current block
\* starts (seven days before today for week), the day after its end is the
\* first day of 'this X', January and the first quarter reach back into the
\* previous year; 'last quarter' on 2024-05-10 is [2024-01-01, 2024-03-31].
C16_LastRanges ==
    out.step = "resolved" =>
        LET y == today.year
            m == today.month
            qs == QuarterStart(m)
            r == out.result
            unit == AfterFirstSpace(Normalized(inp))
            this == parse_period(THIS_ \o unit, today)
        IN  /\ Normalized(inp) \in {LAST_ \o WEEK, LAST_ \o MONTH, LAST_ \o QUARTER, LAST_ \o YEAR} =>
                  /\ r.ok
                  /\ r.start_dt.sec = 0 /\ r.start_dt.usec = 0
                  /\ r.end_dt.sec = 86399 /\ r.end_dt.usec = 999999
                  /\ ToOrdinal(r.end_dt.date) + 1 = ToOrdinal(this.start_dt.date)
                  /\ r = parse_period(THIS_ \o unit,
                                      IF unit = WEEK
                                      THEN DatePlusDays(today, -7)
                                      ELSE DatePlusDays(this.start_dt.date, -1))
            /\ Normalized(inp) = LAST_ \o WEEK =>
                  /\ ToOrdinal(r.end_dt.date) - ToOrdinal(r.start_dt.date) = 6
                  /\ (ToOrdinal(r.start_dt.date) - ToOrdinal(Date(2024, 1, 1))) % 7 = 0
                  /\ ToOrdinal(today) - ToOrdinal(r.end_dt.date) \in 1..7
            /\ Normalized(inp) = LAST_ \o MONTH =>
                  r = IF m = 1 THEN CalendarMonths(y - 1, 12, 12)
                      ELSE CalendarMonths(y, m - 1, m - 1)
            /\ Normalized(inp) = LAST_ \o QUARTER =>
                  r = IF qs = 1 THEN CalendarMonths(y - 1, 10, 12)
                      ELSE CalendarMonths(y, qs - 3, qs - 1)
            /\ Normalized(inp) = LAST_ \o YEAR =>
                  r = CalendarMonths(y - 1, 1, 12)
            /\ (today = Date(2024, 5, 10) /\ inp = LAST_ \o QUARTER) =>
                  /\ r.start_dt = FirstInstant(2024, 1, 1)
                  /\ r.end_dt = LastInstant(2024, 3, 31)

C16_Witness ==
    /\ out.step = "resolved"
    /\ today = Date(2024, 5, 10)
    /\ inp = LAST_ \o QUARTER
    /\ out.result.ok
    /\ out.result.start_dt.date = Date(2024, 1, 1)
    /\ out.result.end_dt.date = Date(2024, 3, 31)

----------------------------------------------------------------------------
(* end cut short between its append and its rename                          *)

\* the number of End time lines an open file gathers from interrupted ends
MaxInterrupts == 1

\* end, lines 399-421, the process killed before line 430: the End time line
\* is in the file and the file keeps its open name
end_interrupted(chosen) ==
    /\ chosen \in find_open_logs(files)
    /\ Cardinality(EndTimeLines(files[chosen])) < MaxInterrupts
    /\ files' = AppendLine(files, chosen, end_line(today, clock))
    /\ last' = [op |-> "end", chosen |-> chosen, result |-> "Interrupted"]
    /\ UNCHANGED <<today, clock, nstart, pc, loc, inp, out>>

NextCrash ==
    \/ \E a \in RaceInputs : start(a[1], a[2], a[3])
    \/ \E chosen \in DOMAIN files : end(chosen)
    \/ \E chosen \in DOMAIN files : end_interrupted(chosen)
    \/ \E c \in ReportClients, p \in ReportPhrases : report(c, p)
    \/ Tick

SpecCrash == Init /\ [][NextCrash]_vars

\* C17: an end interrupted after its append leaves the record open. The file
\* is still returned by find_open_logs and carries an End time line, no
\* report counts it (a report counts closed files only), and a later complete
\* end appends its line and produces the closed file of the same date,
\* sequence and client.
C17_InterruptedStaysOpen ==
    [][/\ \A chosen \in DOMAIN files :
            /\ end_interrupted(chosen) =>
                  /\ chosen \in find_open_logs(files')
                  /\ EndTimeLines(files'[chosen]) # {}
                  /\ \A c \in ReportClients \cup {ClientOf(chosen)}, p \in NinePhrases :
                        chosen \notin report_result(files', c, p, today).counted
            /\ (end(chosen) /\ EndTimeLines(files[chosen]) # {}) =>
                  LET new_name == last'.new_name
                  IN  /\ DOMAIN files' = (DOMAIN files \ {chosen}) \cup {new_name}
                      /\ IdOf(new_name) = IdOf(chosen)
                      /\ StatusOf(new_name) = CLOSED
                      /\ files'[new_name] = Append(files[chosen], end_line(today, clock))
       /\ \A c \in ReportClients, p \in ReportPhrases :
            (report(c, p) /\ last'.result.ok) =>
                \A f \in last'.result.counted : StatusOf(f) = CLOSED]_vars

\* a record closed by a complete end after an interrupted one, and a report
\* that counted it
C17_Witness ==
    /\ ReportDone
    /\ \E f \in last.result.counted : Cardinality(EndTimeLines(files[f])) = 2

\* the body of f has a Start time line
HasStartLine(dir, f) == \E i \in 1..Len(dir[f]) : dir[f][i][1] = "Start time"

\* C18: a closed record of the requested client whose Start time value does
\* not parse as a timestamp is not dropped: its start is midnight of the date
\* in its file name, and it is counted exactly when that midnight lies within
\* the resolved period.
C18_UnparsedStartFallback ==
    ReportDone =>
        \A f \in Records(files) :
            (/\ StatusOf(f) = CLOSED
             /\ ClientOf(f) = last.c
             /\ HasStartLine(files, f)
             /\ ~IsStamp(StartValue(files, f))
             /\ ~Falsy(EndValue(files, f))) =>
                (f \in last.result.counted <=>
                    WithinDays(DayStart(parse_yyyymmdd(DateOf(f))),
                               parse_period(last.p, today)))

\* C19: every record created by start is visible to the store. The file that
\* start wrote matches FILENAME_PATTERN, is returned by find_open_logs, and
\* is taken into account by the next next_sequence_for_today of its date.
C19_StartedVisible ==
    [][\A a \in StartInputs :
          start(a[1], a[2], a[3]) =>
              LET f == last'.filename
                  ymd == yyyymmdd_of(today)
              IN  /\ FILENAME_PATTERN(f).matched
                  /\ f \in find_open_logs(files')
                  /\ next_sequence_for_today(files', ymd) =
                        next_sequence_for_today(files, ymd) + 1]_vars

----------------------------------------------------------------------------
(* The codec as end uses it: the name start built is decoded and built anew  *)

\* the codec's clients, and clients with several trailing spaces and dots
RenameClients ==
    CodecClients \cup {<<"b", ".", " ", ".">>, <<"c", "/", ".", ".">>, <<"d", " ", " ">>}

InitRename ==
    /\ files = EmptyDir
    /\ today = FirstDay
    /\ clock = 0
    /\ nstart = <<>>
    /\ last = [op |-> "none"]
    /\ pc = Idle
    /\ loc = NoLocals
    /\ inp \in [date : CodecDates, seq : 1..MaxSeq, client : RenameClients,
                status : {OPEN}]
    /\ out = [step |-> "input"]

\* end, lines 423-429: the closed name built from the groups of the open name
reencode ==
    /\ out.step = "decoded"
    /\ out.m.matched
    /\ out' = [step |-> "renamed", filename |-> out.filename, m |-> out.m,
               new_name |-> closed_name(out.filename)]
    /\ UNCHANGED <<files, today, clock, nstart, last, pc, loc, inp>>

NextRename == encode \/ decode \/ reencode

SpecRename == InitRename /\ [][NextRename]_vars

\* C20: sanitization is idempotent, so end keeps the client part of the name.
\* Sanitizing a sanitized client gives the same client, and the closed name
\* that end builds from a name written by start decodes to the same date,
\* sequence and client.
C20_SanitizeIdempotent ==
    /\ out.step # "input" =>
          safe_client(safe_client(inp.client)) = safe_client(inp.client)
    /\ out.step = "renamed" =>
          LET n == FILENAME_PATTERN(out.new_name)
          IN  /\ n.matched
              /\ n.g1 = out.m.g1
              /\ StrToInt(n.g2) = StrToInt(out.m.g2)
              /\ n.g3 = out.m.g3
              /\ n.g3 = safe_client(inp.client)
              /\ n.g4 = CLOSED
              /\ out.new_name =
                    inp.date \o <<"-">> \o IntToStr(inp.seq) \o SEP
                        \o safe_client(inp.client) \o SEP \o CLOSED \o DOTLOG

\* the open name of a client that lost an unsafe character and two trailing
\* dots was renamed
C20_Witness ==
    /\ out.step = "renamed"
    /\ inp.client = <<"c", "/", ".", ".">>
    /\ out.m.g3 = <<"c", "-">>

====
